---------------------------- MODULE Spec2Model ----------------------------
(***************************************************************************)
(* Models of the three command-line utilities of gbsoares/utilities:       *)
(*   - the HEIC converter   (python/image/heic_converter/heic.py)          *)
(*   - the photo layout generator (python/image/layout_gen/layout.py)      *)
(*   - the PDF page duplicator    (python/image/pdf-copy/duplicate-page.py)*)
(* The tools share nothing, so each has its own specification (SpecHeic,   *)
(* SpecLayout, SpecPdf, SpecCrop); the variables of the other tools stay   *)
(* at their idle values.                                                   *)
(***************************************************************************)
EXTENDS Integers, Sequences, FiniteSets, TLC

VARIABLES
    \* ---- heic.py: convert_heic_images
    sources,          \* the *.heic / *.HEIC files that exist in input_dir
    outputs,          \* output path (stem + file_extension) -> file content
    delete_original,  \* argument
    parallel,         \* argument
    outcome,          \* per file: which library call of convert_one raises
    heic_files,       \* the list built at lines 46-47
    hpc,              \* position of convert_heic_images
    tpc,              \* per file: position of its convert_one call
    cur,              \* sequential mode: index of the file being converted
    wrote,            \* per file: image.save(output_path) returned
    result,           \* per file: first component of convert_one's value
    runs,             \* per file: number of convert_one calls started
    converted_count,
    failed_count,
    \* ---- layout.py: create_photo_layout
    lfs,              \* path -> content of the file there
    input_dir,        \* argument: the directory searched for images
    rows,             \* argument
    cols,             \* argument
    images,           \* the sorted list of line 166
    lpc,              \* position of create_photo_layout
    page_num,         \* loop variable of line 178
    idx,              \* loop variable of line 179
    temp_path,        \* value of process_image (line 184)
    code,             \* pdf_canvas: the drawing operators of the current page
    pages,            \* pdf_canvas: the pages closed so far
    document,         \* the pages of the saved output_file
    tempsMade,        \* paths process_image has opened for writing
    \* ---- duplicate-page.py: repeat_page
    page_count,       \* len(reader.pages)
    page_num_arg,     \* argument page_num
    n_copies,         \* argument
    writer,           \* the pages added to the PdfWriter
    copy_i,           \* iterations of the loop of line 13 done
    ppc,              \* position of repeat_page
    output_opened,    \* open(output_pdf, "wb") was executed
    output_pdf,       \* the pages written to output_pdf
    \* ---- layout.py: crop_to_aspect
    width,            \* img.size
    height,
    ratio_num,        \* target_ratio = ratio_num / ratio_den
    ratio_den,
    cpc,              \* position of crop_to_aspect
    box               \* the box handed to img.crop

heicVars == <<sources, outputs, delete_original, parallel, outcome, heic_files,
              hpc, tpc, cur, wrote, result, runs, converted_count, failed_count>>

layoutVars == <<lfs, input_dir, rows, cols, images, lpc, page_num, idx,
                temp_path, code, pages, document, tempsMade>>

pdfVars == <<page_count, page_num_arg, n_copies, writer, copy_i, ppc,
             output_opened, output_pdf>>

cropVars == <<width, height, ratio_num, ratio_den, cpc, box>>

vars == <<heicVars, layoutVars, pdfVars, cropVars>>

-----------------------------------------------------------------------------
(* Bounds *)
MaxFiles == 3
MaxBase == 3
MaxRows == 2
MaxCols == 2
MaxPages == 3
MaxCopies == 3
MaxDim == 6
MaxRatio == 3

-----------------------------------------------------------------------------
(* Idle values of each tool's variables while another tool runs *)
notHeic == <<layoutVars, pdfVars, cropVars>>
notLayout == <<heicVars, pdfVars, cropVars>>
notPdf == <<heicVars, layoutVars, cropVars>>
notCrop == <<heicVars, layoutVars, pdfVars>>

NoPath == [dir |-> "", name |-> [base |-> 0, temps |-> 0]]

IdleHeic ==
    /\ sources = {} /\ outputs = <<>> /\ delete_original = FALSE
    /\ parallel = FALSE /\ outcome = <<>> /\ heic_files = <<>>
    /\ hpc = "idle" /\ tpc = <<>> /\ cur = 0 /\ wrote = <<>>
    /\ result = <<>> /\ runs = <<>> /\ converted_count = 0
    /\ failed_count = 0

IdleLayout ==
    /\ lfs = <<>> /\ input_dir = "" /\ rows = 0 /\ cols = 0
    /\ images = <<>> /\ lpc = "idle" /\ page_num = 0 /\ idx = 0
    /\ temp_path = NoPath /\ code = {} /\ pages = <<>>
    /\ document = <<>> /\ tempsMade = {}

IdlePdf ==
    /\ page_count = 0 /\ page_num_arg = 0 /\ n_copies = 0 /\ writer = <<>>
    /\ copy_i = 0 /\ ppc = "idle" /\ output_opened = FALSE
    /\ output_pdf = <<>>

IdleCrop ==
    /\ width = 0 /\ height = 0 /\ ratio_num = 0 /\ ratio_den = 0
    /\ cpc = "idle" /\ box = <<0, 0, 0, 0>>

-----------------------------------------------------------------------------
(***************************************************************************)
(* HEIC converter                                                          *)
(***************************************************************************)
Stems == {"a", "b"}
Exts == {"heic", "HEIC"}
\* A directory entry <stem>.<ext>; the file system is case-sensitive, so
\* a.heic and a.HEIC are two files.
Files == [stem : Stems, ext : Exts]

\* Content of an output path: absent, or the pixels of the source it was
\* encoded from (complete = FALSE: a file left behind by a save that raised).
NoFile == [stem |-> "", ext |-> "", complete |-> FALSE]
Content(f, c) == [stem |-> f.stem, ext |-> f.ext, complete |-> c]

\* Which call of convert_one raises for a file:
\*   decode_fail   pyheif.read / Image.frombytes
\*   save_fail     image.save, the output path left as Pillow >= 8.3 leaves it
\*                 (a file it created is removed, an existing one stays truncated)
\*   save_partial  image.save, the partly written file left behind
\*   unlink_fail   heic_file.unlink()
Outcomes == {"ok", "decode_fail", "save_fail", "save_partial", "unlink_fail"}

RECURSIVE SetToSeq(_)
SetToSeq(S) == IF S = {} THEN <<>>
               ELSE LET x == CHOOSE y \in S : TRUE
                    IN <<x>> \o SetToSeq(S \ {x})

\* input_path.glob("*.<e>"): the entries with that extension, in directory order
Glob(dir, e) == SetToSeq({f \in dir : f.ext = e})

FindHeicFiles(dir) == Glob(dir, "heic") \o Glob(dir, "HEIC")

Discovered == {heic_files[i] : i \in 1..Len(heic_files)}

\* The output map after image.save(output_path) of file f with outcome o.
SaveEffect(outs, f, o) ==
    CASE o = "save_fail"    -> IF outs[f.stem] = NoFile THEN outs
                               ELSE [outs EXCEPT ![f.stem] = Content(f, FALSE)]
      [] o = "save_partial" -> [outs EXCEPT ![f.stem] = Content(f, FALSE)]
      [] OTHER              -> [outs EXCEPT ![f.stem] = Content(f, TRUE)]

SaveRaises(o) == o \in {"save_fail", "save_partial"}

InitHeic ==
    /\ sources \in {d \in SUBSET Files : Cardinality(d) <= MaxFiles}
    /\ outputs = [s \in Stems |-> NoFile]
    /\ delete_original \in BOOLEAN
    /\ parallel \in BOOLEAN
    /\ outcome \in [Files -> Outcomes]
    /\ \A f \in Files : f \notin sources => outcome[f] = "ok"
    /\ \A f \in Files : outcome[f] = "unlink_fail" => delete_original
    /\ heic_files = <<>>
    /\ hpc = "start"
    /\ tpc = [f \in Files |-> "idle"]
    /\ cur = 1
    /\ wrote = [f \in Files |-> FALSE]
    /\ result = [f \in Files |-> "none"]
    /\ runs = [f \in Files |-> 0]
    /\ converted_count = 0
    /\ failed_count = 0

\* lines 46-51: build the list; an empty list returns before any conversion
Discover ==
    /\ hpc = "start"
    /\ heic_files' = FindHeicFiles(sources)
    /\ hpc' = IF heic_files' = <<>> THEN "exit" ELSE "run"
    /\ tpc' = [f \in Files |-> IF f \in sources THEN "queued" ELSE "idle"]
    /\ UNCHANGED notHeic
    /\ UNCHANGED <<sources, outputs, delete_original, parallel, outcome, cur,
                   wrote, result, runs, converted_count, failed_count>>

\* A convert_one call may take a step: any submitted task in parallel mode
\* (lines 71-72; the default pool has at least 5 workers, more than MaxFiles,
\* so no task waits for a free worker), the file of the current loop
\* iteration otherwise (line 81).
CanRun(f) ==
    /\ hpc = "run"
    /\ parallel \/ (cur <= Len(heic_files) /\ heic_files[cur] = f)

\* lines 54-58: pyheif.read and Image.frombytes
Decode(f) ==
    /\ CanRun(f)
    /\ tpc[f] = "queued"
    /\ runs' = [runs EXCEPT ![f] = @ + 1]
    /\ IF f \notin sources \/ outcome[f] = "decode_fail"
       THEN /\ tpc' = [tpc EXCEPT ![f] = "returned"]
            /\ result' = [result EXCEPT ![f] = "failed"]
       ELSE /\ tpc' = [tpc EXCEPT ![f] = "save"]
            /\ UNCHANGED result
    /\ UNCHANGED notHeic
    /\ UNCHANGED <<sources, outputs, delete_original, parallel, outcome,
                   heic_files, hpc, cur, wrote, converted_count, failed_count>>

\* Save with the unlink moved to a finally clause: the source is deleted
\* whether or not image.save raised.
SaveUnlinkAlways(f) ==
    /\ CanRun(f)
    /\ tpc[f] = "save"
    /\ outputs' = SaveEffect(outputs, f, outcome[f])
    /\ wrote' = [wrote EXCEPT ![f] = ~SaveRaises(outcome[f])]
    /\ sources' = IF delete_original THEN sources \ {f} ELSE sources
    /\ tpc' = [tpc EXCEPT ![f] = "returned"]
    /\ result' = [result EXCEPT ![f] = IF SaveRaises(outcome[f]) THEN "failed" ELSE "ok"]
    /\ UNCHANGED notHeic
    /\ UNCHANGED <<delete_original, parallel, outcome, heic_files,
                   hpc, cur, runs, converted_count, failed_count>>

\* lines 59-60, 63-65: image.save(output_path); without delete_original the
\* call returns (True, ...)
Save(f) ==
    /\ CanRun(f)
    /\ tpc[f] = "save"
    /\ outputs' = SaveEffect(outputs, f, outcome[f])
    /\ IF SaveRaises(outcome[f])
       THEN /\ tpc' = [tpc EXCEPT ![f] = "returned"]
            /\ result' = [result EXCEPT ![f] = "failed"]
            /\ UNCHANGED wrote
       ELSE /\ wrote' = [wrote EXCEPT ![f] = TRUE]
            /\ IF delete_original
               THEN /\ tpc' = [tpc EXCEPT ![f] = "unlink"]
                    /\ UNCHANGED result
               ELSE /\ tpc' = [tpc EXCEPT ![f] = "returned"]
                    /\ result' = [result EXCEPT ![f] = "ok"]
    /\ UNCHANGED notHeic
    /\ UNCHANGED <<sources, delete_original, parallel, outcome, heic_files,
                   hpc, cur, runs, converted_count, failed_count>>

\* lines 61-62, 65-67: heic_file.unlink(); an exception is caught like any other
Unlink(f) ==
    /\ CanRun(f)
    /\ tpc[f] = "unlink"
    /\ tpc' = [tpc EXCEPT ![f] = "returned"]
    /\ IF outcome[f] = "unlink_fail"
       THEN /\ result' = [result EXCEPT ![f] = "failed"]
            /\ UNCHANGED sources
       ELSE /\ result' = [result EXCEPT ![f] = "ok"]
            /\ sources' = sources \ {f}
    /\ UNCHANGED notHeic
    /\ UNCHANGED <<outputs, delete_original, parallel, outcome, heic_files,
                   hpc, cur, wrote, runs, converted_count, failed_count>>

\* Collect that ignores the success flag and counts every result as converted
CollectAlwaysConverted(f) ==
    /\ hpc = "run"
    /\ tpc[f] = "returned"
    /\ tpc' = [tpc EXCEPT ![f] = "collected"]
    /\ converted_count' = converted_count + 1
    /\ cur' = IF parallel THEN cur ELSE cur + 1
    /\ UNCHANGED notHeic
    /\ UNCHANGED <<sources, outputs, delete_original, parallel, outcome,
                   heic_files, hpc, wrote, result, runs, failed_count>>

\* lines 73-79 (as_completed) and 82-87: one finished call is tallied
Collect(f) ==
    /\ hpc = "run"
    /\ tpc[f] = "returned"
    /\ tpc' = [tpc EXCEPT ![f] = "collected"]
    /\ IF result[f] = "ok"
       THEN /\ converted_count' = converted_count + 1
            /\ UNCHANGED failed_count
       ELSE /\ failed_count' = failed_count + 1
            /\ UNCHANGED converted_count
    /\ cur' = IF parallel THEN cur ELSE cur + 1
    /\ UNCHANGED notHeic
    /\ UNCHANGED <<sources, outputs, delete_original, parallel, outcome,
                   heic_files, hpc, wrote, result, runs>>

\* The loop of lines 73 / 81 is over: every future has been yielded
AllCollected == \A f \in Discovered : tpc[f] = "collected"

\* Report that does not wait for every future: it prints the tally as soon
\* as one result has been tallied.
ReportEarly ==
    /\ hpc = "run"
    /\ \E f \in Discovered : tpc[f] = "collected"
    /\ hpc' = "reported"
    /\ UNCHANGED notHeic
    /\ UNCHANGED <<sources, outputs, delete_original, parallel, outcome,
                   heic_files, tpc, cur, wrote, result, runs,
                   converted_count, failed_count>>

\* lines 89-91: the final tally is printed
Report ==
    /\ hpc = "run"
    /\ AllCollected
    /\ hpc' = "reported"
    /\ UNCHANGED notHeic
    /\ UNCHANGED <<sources, outputs, delete_original, parallel, outcome,
                   heic_files, tpc, cur, wrote, result, runs,
                   converted_count, failed_count>>

NextHeic ==
    \/ Discover
    \/ \E f \in Files : Decode(f)
    \/ \E f \in Files : Save(f)
    \/ \E f \in Files : Unlink(f)
    \/ \E f \in Files : Collect(f)
    \/ Report

\* Only the converter runs
InitHeicOnly == IdleLayout /\ IdlePdf /\ IdleCrop /\ InitHeic

SpecHeic == InitHeicOnly /\ [][NextHeic]_vars

-----------------------------------------------------------------------------
(* The sequential loop of lines 81-87 as a function of the inputs: the     *)
(* output map after convert_one has run on heic_files[i..] in list order.  *)
RECURSIVE SeqOutputs(_, _)
SeqOutputs(outs, i) ==
    IF i > Len(heic_files) THEN outs
    ELSE LET f == heic_files[i]
         IN SeqOutputs(IF outcome[f] = "decode_fail" THEN outs
                       ELSE SaveEffect(outs, f, outcome[f]), i + 1)

SeqConverted == Cardinality({f \in Discovered : outcome[f] = "ok"})
SeqFailed == Cardinality({f \in Discovered : outcome[f] # "ok"})

Removed(f) == f \notin sources

\* C1 as stated: with delete-original, at the end of the run a discovered
\* source has been removed if and only if its output was successfully
\* written, and a file reported as failed never has its source deleted.
C1_RemovedIffWritten ==
    (hpc = "reported" /\ delete_original) =>
        \A f \in Discovered :
            /\ Removed(f) <=> wrote[f]
            /\ result[f] = "failed" => ~Removed(f)

\* C1 amended: a source is removed only after its output was written, and a
\* file reported as failed keeps its source (at every moment of the run); at
\* the end of a delete-original run a source has been removed if and only if
\* its output was written and the unlink itself did not raise; without
\* delete-original no source is removed.
C1_RemovedIffWrittenAndUnlinked ==
    \A f \in Discovered :
        /\ Removed(f) => (wrote[f] /\ delete_original)
        /\ result[f] = "failed" => ~Removed(f)
        /\ (hpc = "reported" /\ delete_original) =>
              (Removed(f) <=> (wrote[f] /\ outcome[f] # "unlink_fail"))

\* C1 witness: a finished delete-original run with one source removed, one
\* kept because its save raised, one kept because its unlink raised.
C1_Witness ==
    /\ hpc = "reported" /\ delete_original
    /\ \E f, g, h \in Discovered :
          /\ Removed(f) /\ wrote[f]
          /\ SaveRaises(outcome[g]) /\ ~Removed(g)
          /\ outcome[h] = "unlink_fail" /\ wrote[h] /\ ~Removed(h)

\* C2 as stated: whatever the interleaving, a run ends with the output files
\* (path and content) and the tally that the sequential loop produces from
\* the same files and the same per-file outcomes.
C2_SameAsSequential ==
    hpc = "reported" =>
        /\ outputs = SeqOutputs([s \in Stems |-> NoFile], 1)
        /\ converted_count = SeqConverted
        /\ failed_count = SeqFailed

\* C3: a file whose decode fails is counted once as failed and never as
\* succeeded, its convert_one call writes nothing, and unless another
\* discovered file shares its stem its output path stays absent; the two
\* counters are exactly the numbers of tallied failures and successes.
C3_DecodeFailureCounted ==
    /\ failed_count =
          Cardinality({f \in Discovered : tpc[f] = "collected" /\ result[f] = "failed"})
    /\ converted_count =
          Cardinality({f \in Discovered : tpc[f] = "collected" /\ result[f] = "ok"})
    /\ \A f \in Discovered :
          outcome[f] = "decode_fail" =>
              /\ ~wrote[f]
              /\ result[f] # "ok"
              /\ outputs[f.stem] \notin {Content(f, TRUE), Content(f, FALSE)}
              /\ (\A g \in Discovered : g.stem = f.stem => g = f)
                    => outputs[f.stem] = NoFile
              /\ hpc = "reported" => (result[f] = "failed" /\ tpc[f] = "collected")

\* C3 witness: a finished run in which a decode failed, next to a file of the
\* same stem that converted.
C3_Witness ==
    /\ hpc = "reported"
    /\ \E f, g \in Discovered :
          /\ outcome[f] = "decode_fail" /\ result[f] = "failed"
          /\ g # f /\ g.stem = f.stem /\ result[g] = "ok"
    /\ failed_count = 1 /\ converted_count >= 1

\* C4: every discovered file is converted at most once at any time and
\* exactly once by the time the tally is reported; its outcome depends on
\* its own library calls only; the tally is reported only when every file has
\* an outcome, and then succeeded + failed is the number of discovered files.
C4_EachFileOnce ==
    /\ \A f \in Files : runs[f] <= 1
    /\ \A f \in Files : f \notin Discovered => runs[f] = 0
    /\ hpc = "reported" =>
          /\ \A f \in Discovered :
                /\ runs[f] = 1
                /\ tpc[f] = "collected"
                /\ result[f] = (IF outcome[f] = "ok" THEN "ok" ELSE "failed")
          /\ converted_count + failed_count = Len(heic_files)
          /\ Len(heic_files) = Cardinality(Discovered)

\* C4 witness: a finished parallel run of three files, the first of the list
\* failed and the others converted.
C4_Witness ==
    /\ hpc = "reported" /\ parallel
    /\ Len(heic_files) = 3
    /\ result[heic_files[1]] = "failed"
    /\ result[heic_files[2]] = "ok" /\ result[heic_files[3]] = "ok"
    /\ converted_count = 2 /\ failed_count = 1

-----------------------------------------------------------------------------
(***************************************************************************)
(* Photo layout generator                                                  *)
(***************************************************************************)
\* A file name: "temp_" repeated `temps` times, then "<base>.jpg" (base a
\* single digit), then ".jpg" repeated `temps` times.  The input directory
\* holds plain names and possibly the name temp_1.jpg.jpg.
Names == [base : 1..MaxBase, temps : 0..2]
InputNames == {n \in Names : n.temps = 0 \/ (n.temps = 1 /\ n.base = 1)}
Dirs == {"in", "cwd"}
Paths == [dir : Dirs, name : Names]

\* line 110: f"temp_{os.path.basename(image_path)}.jpg", relative to the
\* working directory
TempPath(image_path) ==
    [dir |-> "cwd",
     name |-> [base |-> image_path.name.base, temps |-> image_path.name.temps + 1]]

\* Order of the path strings: "temp_..." sorts after every "<digit>.jpg" and
\* "temp_temp_..." after "temp_<digit>...".
PathLess(a, b) ==
    \/ a.name.temps < b.name.temps
    \/ (a.name.temps = b.name.temps /\ a.name.base < b.name.base)

RECURSIVE Sorted(_)
Sorted(S) == IF S = {} THEN <<>>
             ELSE LET m == CHOOSE x \in S : \A y \in S \ {x} : PathLess(x, y)
                  IN <<m>> \o Sorted(S \ {m})

\* lines 61-77: the .jpg/.jpeg entries of the directory, sorted
get_image_files(fs, directory) ==
    Sorted({p \in Paths : p.dir = directory /\ fs[p] # "absent"})

Min(a, b) == IF a < b THEN a ELSE b

\* lines 120-124: the k-th slice (k = 1, 2, ...) yielded by paginate_images
paginate_images(imgs, r, c, k) ==
    SubSeq(imgs, (k - 1) * (r * c) + 1, Min(k * (r * c), Len(imgs)))

\* Row computed with the wrong grid dimension
RowByRows(i) == i \div rows

\* lines 180-181
Row(i) == i \div cols
Col(i) == i % cols

images_per_page == paginate_images(images, rows, cols, page_num)

\* Canvas.showPage(): the current page is closed, blank or not
ShowPage(ps, cd) == Append(ps, cd)

\* Canvas.save(): "if there is current data a showPage is executed"
SavePages(ps, cd) == IF cd # {} THEN ShowPage(ps, cd) ELSE ps

\* Outcomes of process_image: Image.open .. resize raises (open_fail); img.save
\* raises and leaves the path as Pillow >= 8.3 does (save_fail: a file it
\* created is removed, an existing one stays truncated) or leaves the partly
\* written file (save_partial); or it returns temp_path.
ProcessOutcomes == {"ok", "open_fail", "save_fail", "save_partial"}

\* The file system after img.save(temp_path) at line 111
TempSaveEffect(fs, tp, o) ==
    CASE o = "ok"           -> [fs EXCEPT ![tp] = "temp"]
      [] o = "save_partial" -> [fs EXCEPT ![tp] = "partial"]
      [] o = "save_fail"    -> IF fs[tp] = "absent" THEN fs
                               ELSE [fs EXCEPT ![tp] = "partial"]
      [] OTHER              -> fs

\* lines 213-214
RemoveTemp(fs, tp) == IF fs[tp] # "absent" THEN [fs EXCEPT ![tp] = "absent"] ELSE fs

InitLayout ==
    /\ input_dir \in Dirs
    /\ rows \in 1..MaxRows
    /\ cols \in 1..MaxCols
    /\ \E S \in SUBSET InputNames :
          lfs = [p \in Paths |-> IF p.dir = input_dir /\ p.name \in S
                                 THEN "input" ELSE "absent"]
    /\ images = <<>>
    /\ lpc = "start"
    /\ page_num = 0
    /\ idx = 0
    /\ temp_path = NoPath
    /\ code = {}
    /\ pages = <<>>
    /\ document = <<>>
    /\ tempsMade = {}

\* lines 166-176: the image list; none found returns before the canvas exists
DiscoverImages ==
    /\ lpc = "start"
    /\ images' = get_image_files(lfs, input_dir)
    /\ IF images' = <<>>
       THEN lpc' = "exit" /\ UNCHANGED page_num
       ELSE lpc' = "process" /\ page_num' = 1
    /\ UNCHANGED notLayout
    /\ UNCHANGED <<lfs, input_dir, rows, cols, idx, temp_path, code, pages,
                   document, tempsMade>>

\* The inner loop goes on to the next image of the slice, or the slice is over
NextImage ==
    IF idx + 1 < Len(images_per_page)
    THEN idx' = idx + 1 /\ lpc' = "process"
    ELSE idx' = idx /\ lpc' = "endpage"

\* lines 179-186 with process_image (lines 93-117)
ProcessImage ==
    /\ lpc = "process"
    /\ LET img_path == images_per_page[idx + 1]
           tp == TempPath(img_path)
       IN \E o \in ProcessOutcomes :
            /\ lfs[img_path] = "absent" => o = "open_fail"
            /\ lfs' = TempSaveEffect(lfs, tp, o)
            /\ tempsMade' = IF o = "open_fail" THEN tempsMade ELSE tempsMade \cup {tp}
            /\ IF o = "ok"
               THEN temp_path' = tp /\ lpc' = "place" /\ UNCHANGED idx
               ELSE temp_path' = NoPath /\ NextImage
    /\ UNCHANGED notLayout
    /\ UNCHANGED <<input_dir, rows, cols, images, page_num, code, pages, document>>

\* lines 188-214: the image is drawn in its cell, or Image.open / drawImage
\* raises; the finally clause removes temp_path
PlaceImage ==
    /\ lpc = "place"
    /\ \E drawn \in BOOLEAN :
          code' = IF drawn
                  THEN code \cup {[row |-> Row(idx), col |-> Col(idx),
                                   img |-> images_per_page[idx + 1]]}
                  ELSE code
    /\ lfs' = RemoveTemp(lfs, temp_path)
    /\ NextImage
    /\ UNCHANGED notLayout
    /\ UNCHANGED <<input_dir, rows, cols, images, page_num, temp_path, pages,
                   document, tempsMade>>

\* lines 216-218 and the next slice of line 178
EndPage ==
    /\ lpc = "endpage"
    /\ IF page_num * rows * cols < Len(images)
       THEN /\ pages' = ShowPage(pages, code)
            /\ code' = {}
            /\ page_num' = page_num + 1
            /\ idx' = 0
            /\ lpc' = "process"
       ELSE /\ lpc' = "save"
            /\ UNCHANGED <<pages, code, page_num, idx>>
    /\ UNCHANGED notLayout
    /\ UNCHANGED <<lfs, input_dir, rows, cols, images, temp_path, document, tempsMade>>

\* lines 220-222: pdf_canvas.save()
SavePdf ==
    /\ lpc = "save"
    /\ pages' = SavePages(pages, code)
    /\ code' = {}
    /\ document' = pages'
    /\ lpc' = "done"
    /\ UNCHANGED notLayout
    /\ UNCHANGED <<lfs, input_dir, rows, cols, images, page_num, idx, temp_path,
                   tempsMade>>

NextLayout ==
    \/ DiscoverImages
    \/ ProcessImage
    \/ PlaceImage
    \/ EndPage
    \/ SavePdf

\* Only the layout generator runs
InitLayoutOnly == IdleHeic /\ IdlePdf /\ IdleCrop /\ InitLayout

SpecLayout == InitLayoutOnly /\ [][NextLayout]_vars

-----------------------------------------------------------------------------
per_page == rows * cols
CeilDiv(n, d) == (n + d - 1) \div d

\* 1-based position of an image in the sorted list
PositionOf(p) == CHOOSE j \in 1..Len(images) : images[j] = p

\* Every image drawn on page g sits in the cell of its own index within the
\* g-th slice of the sorted list, inside the grid, one image per cell.
PageWellPlaced(P, g) ==
    /\ \A d \in P :
          /\ \E j \in 1..Len(images) : images[j] = d.img
          /\ LET i == (PositionOf(d.img) - 1) % per_page
             IN /\ (PositionOf(d.img) - 1) \div per_page = g - 1
                /\ d.row = i \div cols
                /\ d.col = i % cols
          /\ d.row < rows /\ d.col < cols
    /\ \A d, e \in P : (d.row = e.row /\ d.col = e.col) => d = e
    /\ Cardinality(P) <= per_page

\* C5 as stated: the saved document has exactly ceil(N / (rows*cols)) pages
\* whatever images failed, and page g draws images of the g-th slice only
\* (rows*cols of them at most, the remainder on the last page).
C5_PageCount ==
    lpc = "done" =>
        /\ Len(document) = CeilDiv(Len(images), per_page)
        /\ \A g \in 1..Len(document) :
              \A d \in document[g] :
                 \E i \in 1..Len(paginate_images(images, rows, cols, g)) :
                    paginate_images(images, rows, cols, g)[i] = d.img

\* C8 as stated: between two iterations of the image loop, and when
\* create_photo_layout returns, no temporary file written by process_image
\* exists.
C8_NoTempFileLeft ==
    lpc \in {"process", "endpage", "save", "done"} =>
        \A tp \in tempsMade : lfs[tp] = "absent"

\* C9: on every page, closed or current, each drawn image is at
\* row = i div cols, col = i mod cols for its index i within the page's slice,
\* whether or not other images of the page failed; row < rows, no two drawn
\* images share a cell and a page draws at most rows*cols images.
C9_RowMajorPlacement ==
    /\ \A g \in 1..Len(pages) : PageWellPlaced(pages[g], g)
    /\ lpc \in {"process", "place", "endpage", "save"} => PageWellPlaced(code, page_num)
    /\ lpc = "done" => document = pages

\* C9 witness: a saved 2 x 2 page whose first image was skipped and whose
\* third and fourth images are on the second row.
C9_Witness ==
    /\ lpc = "done" /\ rows = 2 /\ cols = 2 /\ Len(images) = 4
    /\ Len(document) = 1
    /\ \A d \in document[1] : d.img # images[1]
    /\ [row |-> 0, col |-> 1, img |-> images[2]] \in document[1]
    /\ [row |-> 1, col |-> 0, img |-> images[3]] \in document[1]
    /\ [row |-> 1, col |-> 1, img |-> images[4]] \in document[1]

\* C10 as stated: every discovered input image stays in place, unchanged,
\* throughout the run.
C10_InputsUntouched ==
    \A j \in 1..Len(images) : lfs[images[j]] = "input"

-----------------------------------------------------------------------------
(***************************************************************************)
(* PDF page duplicator                                                     *)
(***************************************************************************)
\* reader.pages: the pages of the input, each named by its 1-indexed number
ReaderPages(n) == [k \in 1..n |-> k]

\* Python's seq[i]: 0-based, a negative index counts from the end
PyIndex(seq, i) == IF i >= 0 THEN seq[i + 1] ELSE seq[Len(seq) + i + 1]

\* The range check off by one at the lower end: page 0 passes
InRangeFromZero(p, n) == ~(p < 0 \/ p > n)

\* line 8, negated: the page number is one of the document's
InRange(p, n) == ~(p < 1 \/ p > n)

\* line 11
target_page == PyIndex(ReaderPages(page_count), page_num_arg - 1)

InitPdf ==
    /\ page_count \in 0..MaxPages
    /\ page_num_arg \in -1..(MaxPages + 1)
    /\ n_copies \in -1..MaxCopies
    /\ writer = <<>>
    /\ copy_i = 0
    /\ ppc = "start"
    /\ output_opened = FALSE
    /\ output_pdf = <<>>

\* lines 5-11: the range check raises ValueError before anything is written
CheckRange ==
    /\ ppc = "start"
    /\ ppc' = IF InRange(page_num_arg, page_count) THEN "loop" ELSE "raised"
    /\ UNCHANGED notPdf
    /\ UNCHANGED <<page_count, page_num_arg, n_copies, writer, copy_i,
                   output_opened, output_pdf>>

\* lines 13-14: one iteration of for _ in range(n_copies)
AddPage ==
    /\ ppc = "loop"
    /\ copy_i < n_copies
    /\ writer' = Append(writer, target_page)
    /\ copy_i' = copy_i + 1
    /\ UNCHANGED notPdf
    /\ UNCHANGED <<page_count, page_num_arg, n_copies, ppc, output_opened, output_pdf>>

\* lines 16-17: the loop is over, the writer's pages are written
WriteOutput ==
    /\ ppc = "loop"
    /\ ~(copy_i < n_copies)
    /\ output_opened' = TRUE
    /\ output_pdf' = writer
    /\ ppc' = "done"
    /\ UNCHANGED notPdf
    /\ UNCHANGED <<page_count, page_num_arg, n_copies, writer, copy_i>>

NextPdf ==
    \/ CheckRange
    \/ AddPage
    \/ WriteOutput

\* Only the page duplicator runs
InitPdfOnly == IdleHeic /\ IdleLayout /\ IdleCrop /\ InitPdf

SpecPdf == InitPdfOnly /\ [][NextPdf]_vars

Max(a, b) == IF a > b THEN a ELSE b

\* The requested page is not one of the pages 1..page_count
OutOfRange == page_num_arg \notin 1..page_count

\* C7 as stated: a page number outside [1, page_count] raises and no output
\* is opened or written; otherwise the output has exactly n_copies pages, each
\* the requested page.
C7_RangeCheckedCopies ==
    /\ OutOfRange =>
          (ppc \in {"start", "raised"} /\ ~output_opened /\ output_pdf = <<>>)
    /\ ppc = "raised" => OutOfRange
    /\ ppc = "done" =>
          /\ Len(output_pdf) = n_copies
          /\ \A k \in 1..Len(output_pdf) : output_pdf[k] = page_num_arg

\* C7 amended: as C7, with the output holding n_copies pages when n_copies is
\* not negative and no page at all when it is negative.
C7_RangeCheckedCopiesNonNegative ==
    /\ OutOfRange =>
          (ppc \in {"start", "raised"} /\ ~output_opened /\ output_pdf = <<>>)
    /\ ppc = "raised" => OutOfRange
    /\ ppc # "done" => (~output_opened /\ output_pdf = <<>>)
    /\ ppc = "done" =>
          /\ output_opened
          /\ Len(output_pdf) = Max(n_copies, 0)
          /\ \A k \in 1..Len(output_pdf) : output_pdf[k] = page_num_arg

\* C7 witness: three copies of page 2 of a three-page input have been written.
C7_Witness ==
    /\ ppc = "done" /\ page_count = 3 /\ page_num_arg = 2 /\ n_copies = 3
    /\ output_pdf = <<2, 2, 2>>

-----------------------------------------------------------------------------
(***************************************************************************)
(* crop_to_aspect                                                          *)
(***************************************************************************)
\* The ratios are compared and the products truncated as exact rationals:
\* target_ratio = ratio_num / ratio_den.

\* The kept span taken from the left (upper) edge instead of the middle
OffsetZero(total, kept) == 0

\* lines 50 and 55: the offset of the kept span within the full span
Offset(total, kept) == (total - kept) \div 2

\* lines 44-58: the box (left, upper, right, lower) that is kept
crop_to_aspect(w, h, num, den) ==
    IF w * den > num * h
    THEN LET new_width == (h * num) \div den
             left == Offset(w, new_width)
         IN <<left, 0, left + new_width, h>>
    ELSE IF w * den < num * h
    THEN LET new_height == (w * den) \div num
             top == Offset(h, new_height)
         IN <<0, top, w, top + new_height>>
    ELSE <<0, 0, w, h>>

InitCrop ==
    /\ width \in 1..MaxDim
    /\ height \in 1..MaxDim
    /\ ratio_num \in 1..MaxRatio
    /\ ratio_den \in 1..MaxRatio
    /\ cpc = "called"
    /\ box = <<0, 0, width, height>>

\* lines 44-58
Crop ==
    /\ cpc = "called"
    /\ box' = crop_to_aspect(width, height, ratio_num, ratio_den)
    /\ cpc' = "returned"
    /\ UNCHANGED notCrop
    /\ UNCHANGED <<width, height, ratio_num, ratio_den>>

NextCrop == Crop

\* Only crop_to_aspect runs
InitCropOnly == IdleHeic /\ IdleLayout /\ IdlePdf /\ InitCrop

SpecCrop == InitCropOnly /\ [][NextCrop]_vars

LeftTrim == box[1]
TopTrim == box[2]
RightTrim == width - box[3]
BottomTrim == height - box[4]
Wider == width * ratio_den > ratio_num * height
Taller == width * ratio_den < ratio_num * height

\* C6 as stated: a wider image loses the same number of pixels left and
\* right and none above or below, a taller one the same number above and
\* below and none left or right, one at the target ratio none.
C6_SymmetricCrop ==
    cpc = "returned" =>
        /\ Wider => (TopTrim = 0 /\ BottomTrim = 0 /\ LeftTrim = RightTrim)
        /\ Taller => (LeftTrim = 0 /\ RightTrim = 0 /\ TopTrim = BottomTrim)
        /\ (~Wider /\ ~Taller) => box = <<0, 0, width, height>>

\* C6 amended: a wider image loses pixels left and right only, a taller one
\* above and below only, the two trims equal when the excess is even and the
\* right (lower) trim one pixel larger when it is odd; an image at the target
\* ratio is unchanged.
C6_CenteredCrop ==
    cpc = "returned" =>
        /\ Wider => /\ TopTrim = 0 /\ BottomTrim = 0
                    /\ RightTrim - LeftTrim \in {0, 1}
                    /\ LeftTrim >= 0
        /\ Taller => /\ LeftTrim = 0 /\ RightTrim = 0
                     /\ BottomTrim - TopTrim \in {0, 1}
                     /\ TopTrim >= 0
        /\ (~Wider /\ ~Taller) => box = <<0, 0, width, height>>

\* C6 witness: a 6 x 2 image cropped to 3:2 keeps 3 columns, one trimmed on
\* the left and two on the right.
C6_Witness ==
    /\ cpc = "returned" /\ width = 6 /\ height = 2
    /\ ratio_num = 3 /\ ratio_den = 2
    /\ box = <<1, 0, 4, 2>>

=============================================================================
